---- MODULE Spec2Model ----
(***************************************************************************)
(* Model of lib/client.js: the TestomatClient reporting client.            *)
(*                                                                         *)
(* this.queue is a promise chain.  Every call of createRun, addTestRun or  *)
(* updateRunStatus appends one link; a link's then-callback runs only      *)
(* after the previous link has settled, and is skipped when the previous   *)
(* link is rejected, in which case the link's catch handler (if it has     *)
(* one) receives the error.  The transport (axios) and the artifact        *)
(* resolver (uploadFile) are the environment: they settle the requests     *)
(* and uploads handed to them, in any order and with any outcome.          *)
(***************************************************************************)
EXTENDS Integers, Sequences, FiniteSets, TLC

\* Bounds of the model.
MaxCalls == 3          \* addTestRun and updateRunStatus calls under Spec
MaxPayloadCalls == 1   \* the same under SpecPayload
MaxSharedCalls == 1    \* the same under SpecShared

\* Numbers of file references a test result is explored with.
FileCounts == {0, 2}

\* "no value": undefined in the source.
None == "none"

\* TESTOMATIO_RUN, the externally supplied run id, and the uid the server
\* assigns to a created run.
ExtRunId == "ext"
NewRunId == "uid"
\* The uid the server assigns to the run a second client creates.
PeerRunId == "uid2"

\* constants.js
PASSED == "passed"
FAILED == "failed"

\* The explicit testId parameter and the test_id a result descriptor carries.
TestIds == {None, "t1"}
DescriptorIds == {None, "t2"}
Statuses == {PASSED, FAILED, "skipped"}

\* Outcomes of a request handed to the transport: a response below 400, a
\* rejection carrying a response with status >= 400, a rejection without a
\* response.
OK == "ok"
Http4xx == "http4xx"
NoResponse == "noresp"
Failures == {Http4xx, NoResponse}
Outcomes == {OK} \cup Failures

VARIABLES
  envRunId,    \* process.env.runId
  runId,       \* this.runId
  runUrl,      \* this.runUrl
  queue,       \* this.queue, as the sequence of its links in enqueue order
  requests,    \* the requests the transport has observed, in order
  created,     \* the createRun call, once made: the validity of the URL it
               \* found, the path it took and what it returned
  peer         \* a second TestomatClient of the same process, and its
               \* createRun call

vars == <<envRunId, runId, runUrl, queue, requests, created, peer>>

----------------------------------------------------------------------------
\* Diagnostic text.  A string is the sequence of its lines, <<"">> being the
\* empty string and <<>> standing for an absent (undefined) value.

Absent == <<>>
Empty == <<"">>
Truthy(text) == text # Absent /\ text # Empty

\* a + b
Cat(a, b) ==
  SubSeq(a, 1, Len(a) - 1) \o <<a[Len(a)] \o b[1]>> \o SubSeq(b, 2, Len(b))

\* "\n" and "\n\n"
NL == <<"", "">>
NLNL == <<"", "", "">>

\* chalk.<style>(text): the text between the style's opening and closing
\* codes.
Chalk(style, text) ==
  Cat(Cat(<<"<" \o style \o ">">>, text), <<"</" \o style \o ">">>)

\* `${marker}${value.toString().split("\n").join("\n" + marker)}`
Marked(marker, value) == [k \in DOMAIN value |-> marker \o value[k]]

\* No error object: the default `error = ""`.
NoError ==
  [present |-> FALSE, message |-> "", inspect |-> None,
   actual |-> Absent, expected |-> Absent]

\* The message shown: the given one, else the error's, and the error's
\* inspect() over both.
ErrorMessage(message, error) ==
  LET m == IF message = "" THEN error.message ELSE message
  IN IF error.inspect # None THEN error.inspect ELSE m

\* (variant: a diff block that prints the expected value first)
DiffBlockExpectedFirst(actual, expected) ==
  Cat(Cat(Cat(Cat(NLNL,
    Cat(Cat(Chalk("green", <<"+ expected">>), <<" ">>), Chalk("red", <<"- actual">>))),
    Cat(NL, Chalk("green", Marked("+ ", expected)))),
    Cat(NL, Chalk("red", Marked("- ", actual)))),
    NLNL)

\* The diff block: the legend, the actual value marked "- " line by line,
\* the expected value marked "+ " line by line.
DiffBlock(actual, expected) ==
  Cat(Cat(Cat(Cat(NLNL,
    Cat(Cat(Chalk("green", <<"+ expected">>), <<" ">>), Chalk("red", <<"- actual">>))),
    Cat(NL, Chalk("red", Marked("- ", actual)))),
    Cat(NL, Chalk("green", Marked("+ ", expected)))),
    NLNL)

Banner == "################[ Failure ]################"

\* stack, as addTestRun builds it; trace is what the call-site record
\* renders, Absent when there is no record or rendering throws.
Stack(message, error, trace, steps) ==
  LET head == Cat(Cat(NL, Chalk("bold", <<ErrorMessage(message, error)>>)), NL)
      diff == IF Truthy(error.actual) /\ Truthy(error.expected)
                THEN Cat(head, DiffBlock(error.actual, error.expected))
                ELSE head
      full == IF trace # Absent THEN Cat(diff, trace) ELSE diff
      stack == IF error.present THEN full ELSE Empty
  IN IF Truthy(steps)
       THEN IF stack # Empty
              THEN Cat(Cat(Cat(Cat(steps, NLNL), Chalk("bold.red", <<Banner>>)), NL),
                       stack)
              ELSE steps
       ELSE stack

----------------------------------------------------------------------------
\* Promise chain

\* State of the promise the chain held before link i was appended.
PrevLink(q, i) ==
  IF i = 1 THEN [st |-> "settled", res |-> "resolved", err |-> None]
           ELSE [st |-> q[i-1].st, res |-> q[i-1].res, err |-> q[i-1].err]

\* (variant: a callback that does not wait for the link before it)
ReadyUnchained(q, i) == q[i].st = "pending"

\* A then-callback may run: its link is pending and the promise it was
\* chained on has settled.
Ready(q, i) ==
  /\ q[i].st = "pending"
  /\ PrevLink(q, i).st = "settled"

Settle(t, res, err) == [t EXCEPT !.st = "settled", !.res = res, !.err = err]

NewTask(kind) ==
  [kind |-> kind, st |-> "pending", res |-> None, err |-> None,
   executed |-> FALSE, target |-> None, val |-> None,
   testId |-> None, test_id |-> None, status |-> None, isParallel |-> FALSE,
   files |-> 0, uploads |-> <<>>, error |-> NoError, stack |-> Empty]

NewRequest(i, op, id) ==
  [task |-> i, op |-> op, runId |-> id, state |-> "inflight",
   test_id |-> None, files |-> 0, artifacts |-> 0,
   status_event |-> None, status |-> None, stack |-> Empty]

----------------------------------------------------------------------------
\* Pure parts of the handlers

\* (variant: createRun that does not validate the URL)
UrlAbortsNever(urlValid) == FALSE

\* createRun returns at once when the reporting URL is not a valid URL.
UrlAborts(urlValid) == ~urlValid

\* (variants: createRun that ignores process.env.runId; one that looks at
\* TESTOMATIO_RUN only)
TakesResumeNever(env) == FALSE
TakesResumeOnlyExternal(env) == env = ExtRunId

\* createRun takes the resume path when process.env.runId is set.
TakesResume(env) == env # None

\* The value the success callback of the create request returns, which the
\* future of createRun resolves with: the callback has no return statement.
CreateCallbackValue(uid) == None

\* The public run URL derived from the server's answer.
RunUrlOf(uid) == "url"

\* The test_id the payload carries: the test_id variable destructured from
\* testData before testData.test_id is overwritten with testId.
PayloadTestId(testId, test_id) == test_id

\* The uploads addTestRun starts at call time, one per file reference, keyed
\* to this.runId; none when this.runId is not set.
UploadsAtCall(rid, files) ==
  IF rid # None THEN [f \in 1..files |-> [key |-> rid, st |-> "pending"]]
                ELSE <<>>

\* (variants: a payload built without awaiting the uploads; one built from
\* whatever uploads succeeded)
PromiseAllSettled(uploads) ==
  IF \A f \in DOMAIN uploads : uploads[f].st # "pending" THEN "resolved"
  ELSE "pending"

PromiseAllNoWait(uploads) == "resolved"

\* Promise.all(uploadedFiles): rejected as soon as one upload is rejected,
\* resolved once all are resolved, pending otherwise.
PromiseAll(uploads) ==
  IF \E f \in DOMAIN uploads : uploads[f].st = "rejected" THEN "rejected"
  ELSE IF \A f \in DOMAIN uploads : uploads[f].st = "resolved" THEN "resolved"
  ELSE "pending"

\* (variant: operations that do not look at this.runId)
HasRunAlways(rid) == TRUE

\* The queued operations of addTestRun and updateRunStatus do nothing
\* without a run id.
HasRun(rid) == rid # None

\* (variants: no parallel suffix; an unknown status reported as a failure)
StatusEventNoSuffix(status, isParallel) ==
  IF status = PASSED THEN "pass" ELSE IF status = FAILED THEN "fail" ELSE None
StatusEventDefaultsFail(status, isParallel) ==
  LET base == IF status = PASSED THEN "pass" ELSE "fail"
  IN IF isParallel THEN base \o "_parallel" ELSE base

\* statusEvent of updateRunStatus; undefined stringifies when the parallel
\* suffix is appended to it.
StatusEvent(status, isParallel) ==
  LET base == IF status = PASSED THEN "pass"
              ELSE IF status = FAILED THEN "fail" ELSE "undefined"
  IN IF isParallel THEN base \o "_parallel"
     ELSE IF base = "undefined" THEN None ELSE base

\* Which links install a failure handler: the resume link of createRun is a
\* bare then().
HasCatch(kind) == kind # "resume"

\* (variants: handlers that rethrow)
AddCatchRethrow(err) == IF err = Http4xx THEN "resolved" ELSE "rejected"
StatusCatchRethrow(err) == "rejected"

\* The catch handlers: each logs and returns, so its link resolves.
CreateCatch(err) == "resolved"
AddCatch(err) ==
  IF err = Http4xx THEN "resolved"      \* err.response.status >= 400
  ELSE "resolved"                       \* no err.response
StatusCatch(err) == "resolved"

Catch(kind, err) ==
  CASE kind = "create" -> CreateCatch(err)
    [] kind = "add"    -> AddCatch(err)
    [] kind = "status" -> StatusCatch(err)

\* A link whose then-callback was skipped or threw: handled by its catch
\* handler when it has one, rejected with the same error otherwise.
Fail(t, err) ==
  IF HasCatch(t.kind)
    THEN LET r == Catch(t.kind, err)
         IN Settle(t, r, IF r = "rejected" THEN err ELSE None)
    ELSE Settle(t, "rejected", err)

\* (variant: a resume callback that drops the promise of its request)
ReturnsRequestButResume(kind) == kind # "resume"

\* Every then-callback returns (or awaits) the promise of its request, so
\* its link settles only when the request has settled.
ReturnsRequest(kind) == TRUE

Sent(t) == IF ReturnsRequest(t.kind) THEN [t EXCEPT !.st = "inflight"]
           ELSE Settle(t, "resolved", None)

\* The request a link issues when it runs.
RequestOf(i, t, rid) ==
  CASE t.kind = "create" -> NewRequest(i, "create", None)
    [] t.kind = "resume" -> NewRequest(i, "update", t.target)
    [] t.kind = "add" ->
         [NewRequest(i, "testrun", rid) EXCEPT
            !.test_id = PayloadTestId(t.testId, t.test_id),
            !.files = t.files,
            !.artifacts = Len(t.uploads),
            !.status = t.status,
            !.stack = t.stack]
    [] t.kind = "status" ->
         [NewRequest(i, "status", rid) EXCEPT
            !.status_event = StatusEvent(t.status, t.isParallel),
            !.status = t.status]

Calls(q) == Cardinality({i \in DOMAIN q : q[i].kind \in {"add", "status"}})

----------------------------------------------------------------------------
Init ==
  /\ envRunId \in {None, ExtRunId}
  /\ runId = envRunId
  /\ runUrl = None
  /\ queue = <<>>
  /\ requests = <<>>
  /\ created = [path |-> None, future |-> None, value |-> None, link |-> 0,
                urlValid |-> TRUE]
  /\ peer = [st |-> "absent", runId |-> None, path |-> None, target |-> None,
             op |-> None, res |-> None, urlValid |-> TRUE]

\* createRun(), urlValid being isValidUrl(TESTOMAT_URL.trim())
CreateRun(urlValid) ==
  /\ created.path = None
  /\ IF UrlAborts(urlValid)
       THEN /\ created' = [created EXCEPT !.path = "invalid", !.future = "undefined",
                                          !.urlValid = urlValid]
            /\ UNCHANGED <<runId, queue>>
     ELSE IF TakesResume(envRunId)
       THEN /\ runId' = envRunId
            /\ queue' = Append(queue, [NewTask("resume") EXCEPT !.target = envRunId])
            /\ created' = [path |-> "resume", future |-> "resolved",
                           value |-> envRunId, link |-> Len(queue) + 1,
                           urlValid |-> urlValid]
     ELSE /\ queue' = Append(queue, NewTask("create"))
          /\ created' = [path |-> "create", future |-> "queue",
                         value |-> None, link |-> Len(queue) + 1,
                         urlValid |-> urlValid]
          /\ UNCHANGED runId
  /\ UNCHANGED <<envRunId, runUrl, requests, peer>>

\* addTestRun(testId, status, testData) with testData.test_id = test_id,
\* testData.files of length files and the message, error and steps of
\* testData as given
AddFailedTestRun(testId, status, test_id, files, message, error, trace, steps) ==
  /\ queue' = Append(queue,
       [NewTask("add") EXCEPT !.testId = testId, !.test_id = test_id,
                              !.status = status, !.files = files,
                              !.error = error,
                              !.stack = Stack(message, error, trace, steps),
                              !.uploads = UploadsAtCall(runId, files)])
  /\ UNCHANGED <<envRunId, runId, runUrl, requests, created, peer>>

\* The same for a testData without message, error and steps.
AddTestRun(testId, status, test_id, files) ==
  AddFailedTestRun(testId, status, test_id, files, "", NoError, Absent, Absent)

\* updateRunStatus(status, isParallel)
UpdateRunStatus(status, isParallel) ==
  /\ queue' = Append(queue,
       [NewTask("status") EXCEPT !.status = status, !.isParallel = isParallel])
  /\ UNCHANGED <<envRunId, runId, runUrl, requests, created, peer>>

\* The body of the then-callback of link i: run when its turn comes and, for
\* addTestRun, gone through again once `await Promise.all(uploadedFiles)`
\* has settled.
RunLink(i) ==
  LET t == [queue[i] EXCEPT !.executed = TRUE]
      send == /\ requests' = Append(requests, RequestOf(i, t, runId))
              /\ queue' = [queue EXCEPT ![i] = Sent(t)]
      done(u) == /\ queue' = [queue EXCEPT ![i] = u]
                 /\ UNCHANGED requests
  IN CASE t.kind \in {"create", "resume"} -> send
       [] t.kind = "status" ->
            IF HasRun(runId) THEN send ELSE done(Settle(t, "resolved", None))
       [] t.kind = "add" ->
            IF ~HasRun(runId) THEN done(Settle(t, "resolved", None))
            ELSE CASE PromiseAll(t.uploads) = "resolved" -> send
                   [] PromiseAll(t.uploads) = "rejected" -> done(Fail(t, "upload"))
                   [] OTHER -> done([t EXCEPT !.st = "awaiting"])

\* The chain reaches link i: its then-callback runs, or is skipped because
\* the previous link is rejected.
StartTask(i) ==
  /\ Ready(queue, i)
  /\ IF PrevLink(queue, i).res = "rejected"
       THEN /\ queue' = [queue EXCEPT ![i] = Fail(queue[i], PrevLink(queue, i).err)]
            /\ UNCHANGED requests
       ELSE RunLink(i)
  /\ UNCHANGED <<envRunId, runId, runUrl, created, peer>>

\* The artifact resolver settles upload f of link i.  Followed only as long
\* as Promise.all of the link can still observe it.
UploadSettle(i, f, ok) ==
  /\ queue[i].st \in {"pending", "awaiting"}
  /\ PromiseAll(queue[i].uploads) = "pending"
  /\ queue[i].uploads[f].st = "pending"
  /\ queue' = [queue EXCEPT ![i].uploads[f].st =
                 IF ok THEN "resolved" ELSE "rejected"]
  /\ UNCHANGED <<envRunId, runId, runUrl, requests, created, peer>>

\* Promise.all(uploadedFiles) has settled: the operation of link i goes on.
AfterUploads(i) ==
  /\ queue[i].st = "awaiting"
  /\ PromiseAll(queue[i].uploads) # "pending"
  /\ RunLink(i)
  /\ UNCHANGED <<envRunId, runId, runUrl, created, peer>>

\* The transport settles request r with outcome o.
Respond(r, o) ==
  LET i == requests[r].task
      t == queue[i]
  IN /\ requests[r].state = "inflight"
     /\ requests' = [requests EXCEPT ![r].state = IF o = OK THEN OK ELSE "failed"]
     /\ IF t.st # "inflight" THEN UNCHANGED <<queue, runId, runUrl, envRunId>>
        ELSE IF o = OK
          THEN /\ queue' = [queue EXCEPT ![i] =
                    [Settle(t, "resolved", None) EXCEPT !.val =
                       IF t.kind = "create" THEN CreateCallbackValue(NewRunId)
                                            ELSE None]]
               /\ IF t.kind = "create"
                    THEN /\ runId' = NewRunId
                         /\ runUrl' = RunUrlOf(NewRunId)
                         /\ envRunId' = NewRunId
                    ELSE UNCHANGED <<runId, runUrl, envRunId>>
          ELSE /\ queue' = [queue EXCEPT ![i] = Fail(t, o)]
               /\ UNCHANGED <<runId, runUrl, envRunId>>
     /\ UNCHANGED <<created, peer>>

\* new TestomatClient(params), a second time in the process
PeerNew ==
  /\ peer.st = "absent"
  /\ peer' = [peer EXCEPT !.st = "new", !.runId = envRunId]
  /\ UNCHANGED <<envRunId, runId, runUrl, queue, requests, created>>

\* createRun() on the second client
PeerCreateRun(urlValid) ==
  /\ peer.st = "new"
  /\ IF UrlAborts(urlValid)
       THEN peer' = [peer EXCEPT !.st = "settled", !.path = "invalid",
                                 !.urlValid = urlValid]
     ELSE IF TakesResume(envRunId)
       THEN peer' = [peer EXCEPT !.st = "pending", !.path = "resume",
                                 !.runId = envRunId, !.target = envRunId,
                                 !.urlValid = urlValid]
     ELSE peer' = [peer EXCEPT !.st = "pending", !.path = "create",
                               !.urlValid = urlValid]
  /\ UNCHANGED <<envRunId, runId, runUrl, queue, requests, created>>

\* The queue of the second client runs the link of its createRun.
PeerStart ==
  /\ peer.st = "pending"
  /\ peer' = [peer EXCEPT !.st = "inflight",
                          !.op = IF peer.path = "create" THEN "create" ELSE "update"]
  /\ UNCHANGED <<envRunId, runId, runUrl, queue, requests, created>>

\* The transport settles the request of the second client.
PeerRespond(o) ==
  /\ peer.st = "inflight"
  /\ IF o = OK
       THEN /\ peer' = [peer EXCEPT !.st = "settled", !.res = "resolved",
                          !.runId = IF peer.path = "create" THEN PeerRunId
                                                           ELSE peer.runId]
            /\ envRunId' = IF peer.path = "create" THEN PeerRunId ELSE envRunId
       ELSE /\ peer' = [peer EXCEPT !.st = "settled",
                          !.res = IF HasCatch(peer.path) THEN "resolved"
                                                        ELSE "rejected"]
            /\ UNCHANGED envRunId
  /\ UNCHANGED <<runId, runUrl, queue, requests, created>>

\* The steps the program and its collaborators take by themselves.
Run ==
  \/ \E i \in DOMAIN queue : StartTask(i)
  \/ \E i \in DOMAIN queue : \E f \in DOMAIN queue[i].uploads, ok \in BOOLEAN :
       UploadSettle(i, f, ok)
  \/ \E i \in DOMAIN queue : AfterUploads(i)
  \/ \E r \in DOMAIN requests, o \in Outcomes : Respond(r, o)

\* The client under any order of calls, each result with any number of files.
Next ==
  \/ \E urlValid \in BOOLEAN : CreateRun(urlValid)
  \/ /\ Calls(queue) < MaxCalls
     /\ \E files \in FileCounts : AddTestRun("t1", FAILED, None, files)
  \/ /\ Calls(queue) < MaxCalls
     /\ UpdateRunStatus(PASSED, FALSE)
  \/ Run

Spec == Init /\ [][Next]_vars

\* The same, with the event loop running every callback that is ready and
\* the transport and the artifact resolver settling whatever they were
\* handed.
SpecLive == Init /\ [][Next]_vars /\ WF_vars(Run)

\* Two clients of one process, which reads TESTOMAT_URL once: both createRun
\* calls find the same URL.
NextShared ==
  \/ \E urlValid \in BOOLEAN :
       /\ peer.path # None => urlValid = peer.urlValid
       /\ CreateRun(urlValid)
  \/ /\ Calls(queue) < MaxSharedCalls
     /\ \E files \in FileCounts : AddTestRun("t1", FAILED, None, files)
  \/ /\ Calls(queue) < MaxSharedCalls
     /\ UpdateRunStatus(PASSED, FALSE)
  \/ Run
  \/ PeerNew
  \/ \E urlValid \in BOOLEAN :
       /\ created.path # None => urlValid = created.urlValid
       /\ PeerCreateRun(urlValid)
  \/ PeerStart
  \/ \E o \in Outcomes : PeerRespond(o)

SpecShared == Init /\ [][NextShared]_vars

\* Values of error.actual and error.expected, error objects, call-site
\* renderings and step traces a failed test is reported with.
Values == {Absent, Empty, <<"foo">>, <<"bar">>, <<"foo", "baz">>}
ErrorObjects ==
  {NoError} \cup [present : {TRUE}, message : {"boom"}, inspect : {None, "inspected"},
                  actual : Values, expected : Values]
Traces == {Absent, <<"at test.js:1:1">>}
StepTraces == {Absent, <<"I open the page">>}

\* One test result, reported with every kind of failure.
NextDiff ==
  \/ /\ queue = <<>>
     /\ \E message \in {"", "failed"}, error \in ErrorObjects, trace \in Traces,
           steps \in StepTraces, files \in FileCounts :
          AddFailedTestRun("t1", FAILED, None, files, message, error, trace, steps)
  \/ Run

SpecDiff == Init /\ [][NextDiff]_vars

\* The client under fewer calls, with every combination of the arguments
\* that only shape the payloads.
NextPayload ==
  \/ \E urlValid \in BOOLEAN : CreateRun(urlValid)
  \/ /\ Calls(queue) < MaxPayloadCalls
     /\ \E testId \in TestIds, test_id \in DescriptorIds,
           status \in {PASSED, FAILED}, files \in FileCounts :
          AddTestRun(testId, status, test_id, files)
  \/ /\ Calls(queue) < MaxPayloadCalls
     /\ \E status \in Statuses, isParallel \in BOOLEAN :
          UpdateRunStatus(status, isParallel)
  \/ Run

SpecPayload == Init /\ [][NextPayload]_vars

----------------------------------------------------------------------------
\* Properties

RequestsOf(i) == {r \in DOMAIN requests : requests[r].task = i}
InFlight == {r \in DOMAIN requests : requests[r].state = "inflight"}
FailedRequest(i) == \E r \in RequestsOf(i) : requests[r].state = "failed"

\* C1: the transport observes the requests in the order their calls were
\* enqueued, and when a status update is sent every operation enqueued
\* before it has completed, so that none of them is sent after it.
C1_SentInEnqueueOrder ==
  /\ \A r1, r2 \in DOMAIN requests :
       r1 < r2 => requests[r1].task < requests[r2].task
  /\ \A r \in DOMAIN requests :
       requests[r].op = "status" =>
         \A j \in 1..(requests[r].task - 1) : queue[j].st = "settled"

\* Two test results and then the status update have been sent.
C1_Witness ==
  \E r1, r2, r3 \in DOMAIN requests :
    /\ r1 < r2 /\ r2 < r3
    /\ requests[r1].op = "testrun"
    /\ requests[r2].op = "testrun"
    /\ requests[r3].op = "status"
    /\ r3 = Len(requests)

\* C2: at most one request to the reporting API is in flight.
C2_OneInFlight == Cardinality(InFlight) <= 1

\* A request is in flight while two later operations wait in the queue.
C2_Witness ==
  /\ created.path \in {"create", "resume"}
  /\ Cardinality(InFlight) = 1
  /\ Cardinality({i \in DOMAIN queue : queue[i].st = "pending"}) >= 2

\* C3: a queued operation whose request fails does not keep the operation
\* enqueued next from running its own step.
C3_FailureDoesNotAbortNext ==
  \A i \in DOMAIN queue :
    (FailedRequest(i) /\ i + 1 \in DOMAIN queue /\ queue[i+1].st = "settled")
      => queue[i+1].executed

\* C4: when the transport rejects a test-result submission, the future of
\* that addTestRun resolves, and the addTestRun enqueued next sends its own
\* request (unless one of its own uploads was rejected).
C4_RejectedSubmissionAbsorbed ==
  \A i \in DOMAIN queue :
    (queue[i].kind = "add" /\ FailedRequest(i) /\ queue[i].st = "settled") =>
      /\ queue[i].res = "resolved"
      /\ (i + 1 \in DOMAIN queue /\ queue[i+1].kind = "add"
            /\ queue[i+1].st = "settled") =>
           \/ RequestsOf(i+1) # {}
           \/ PromiseAll(queue[i+1].uploads) = "rejected"

\* The submission of one result was rejected and the next result was sent.
C4_Witness ==
  \E i \in DOMAIN queue :
    /\ queue[i].kind = "add" /\ FailedRequest(i)
    /\ queue[i].res = "resolved"
    /\ i + 1 \in DOMAIN queue
    /\ queue[i+1].kind = "add"
    /\ RequestsOf(i+1) # {}

\* C5: whatever the transport answers, no future returned by createRun,
\* addTestRun or updateRunStatus is rejected.
C5_NoFutureRejects ==
  /\ \A i \in DOMAIN queue :
       queue[i].kind \in {"create", "add", "status"} => queue[i].res # "rejected"
  /\ created.path = "resume" => created.future = "resolved"

\* The update of a resumed run, a test-result submission and a status update
\* have all failed, and every call's future is resolved.
C5_Witness ==
  /\ created.path = "resume"
  /\ FailedRequest(created.link)
  /\ \E i, j \in DOMAIN queue :
       /\ queue[i].kind = "add" /\ FailedRequest(i) /\ queue[i].res = "resolved"
       /\ queue[j].kind = "status" /\ FailedRequest(j) /\ queue[j].res = "resolved"

\* C6: once the create request of createRun has failed, no call enqueued
\* after it issues a request or starts an upload, and each resolves.
C6_NoRunNoOp ==
  (created.path = "create" /\ FailedRequest(created.link)) =>
    \A i \in DOMAIN queue :
      i > created.link =>
        /\ RequestsOf(i) = {}
        /\ queue[i].uploads = <<>>
        /\ queue[i].st = "settled" => queue[i].res = "resolved"

\* After a failed create, a result with files and a status update have
\* completed.
C6_Witness ==
  /\ created.path = "create" /\ FailedRequest(created.link)
  /\ \E i, j \in DOMAIN queue :
       /\ i > created.link /\ j > created.link
       /\ queue[i].kind = "add" /\ queue[i].files > 0 /\ queue[i].res = "resolved"
       /\ queue[j].kind = "status" /\ queue[j].res = "resolved"

\* C7: with an externally supplied run id, createRun never issues a create
\* request, issues one update request against that id (none before its turn
\* in the queue, exactly one after), and returns a future already resolved
\* with that id.
C7_ResumeUpdatesOnce ==
  (envRunId = ExtRunId /\ created.path \notin {None, "invalid"}) =>
    /\ created.path = "resume"
    /\ created.future = "resolved"
    /\ created.value = ExtRunId
    /\ \A r \in DOMAIN requests : requests[r].op # "create"
    /\ \A r \in RequestsOf(created.link) :
         requests[r].op = "update" /\ requests[r].runId = ExtRunId
    /\ Cardinality(RequestsOf(created.link)) <= 1
    /\ queue[created.link].st \in {"inflight", "settled"} =>
         Cardinality(RequestsOf(created.link)) = 1

\* createRun has returned the supplied id while its update still waits
\* behind an earlier operation.
C7_Witness ==
  /\ created.path = "resume"
  /\ created.future = "resolved"
  /\ created.link > 1
  /\ queue[created.link].st = "pending"

\* C8: the test_id of a sent payload is the explicit testId when one was
\* given, and the descriptor's test_id otherwise.
C8_ExplicitTestIdWins ==
  \A r \in DOMAIN requests :
    requests[r].op = "testrun" =>
      requests[r].test_id =
        IF queue[requests[r].task].testId # None
          THEN queue[requests[r].task].testId
          ELSE queue[requests[r].task].test_id

\* C9: every sent test result carries one artifact per file reference, each
\* uploaded at call time under the run id.
C9_ArtifactPerFile ==
  \A r \in DOMAIN requests :
    requests[r].op = "testrun" =>
      /\ requests[r].artifacts = requests[r].files
      /\ Len(queue[requests[r].task].uploads) = queue[requests[r].task].files
      /\ \A f \in DOMAIN queue[requests[r].task].uploads :
           queue[requests[r].task].uploads[f].key = requests[r].runId

\* C10: a test result is sent only after every upload started for it has
\* settled.
C10_SentAfterUploads ==
  \A r \in DOMAIN requests :
    requests[r].op = "testrun" =>
      \A f \in DOMAIN queue[requests[r].task].uploads :
        queue[requests[r].task].uploads[f].st # "pending"

\* A result with two uploads has been sent.
C10_Witness ==
  \E r \in DOMAIN requests :
    /\ requests[r].op = "testrun"
    /\ Len(queue[requests[r].task].uploads) = 2

\* C11: a status update carries "pass" for passed and "fail" for failed,
\* with the parallel suffix exactly when isParallel is set, and the raw
\* status unchanged.
C11_StatusMapping ==
  \A r \in DOMAIN requests :
    requests[r].op = "status" =>
      LET t == queue[requests[r].task]
      IN /\ requests[r].status = t.status
         /\ (t.status = PASSED /\ t.isParallel) => requests[r].status_event = "pass_parallel"
         /\ (t.status = PASSED /\ ~t.isParallel) => requests[r].status_event = "pass"
         /\ (t.status = FAILED /\ t.isParallel) => requests[r].status_event = "fail_parallel"
         /\ (t.status = FAILED /\ ~t.isParallel) => requests[r].status_event = "fail"

\* updateRunStatus(passed, true) has sent its request.
C11_Witness ==
  \E r \in DOMAIN requests :
    /\ requests[r].op = "status"
    /\ queue[requests[r].task].status = PASSED
    /\ queue[requests[r].task].isParallel
    /\ requests[r].status_event = "pass_parallel"

\* A run id was known when link i ran: supplied from outside, or assigned by
\* a create request enqueued before link i.
RunKnownAt(i) ==
  \/ envRunId = ExtRunId
  \/ /\ created.path = "create" /\ created.link < i
     /\ \E r \in RequestsOf(created.link) : requests[r].state = OK

\* C18: with a run id, a status that is neither passed nor failed is still
\* sent; its status event is undefined, or undefined with the parallel
\* suffix appended in parallel mode, and never one of the pass/fail tags.
C18_UnknownStatusStillSent ==
  \A i \in DOMAIN queue :
    (queue[i].kind = "status" /\ queue[i].status \notin {PASSED, FAILED}) =>
      /\ (RunKnownAt(i) /\ queue[i].executed /\ queue[i].st = "settled")
           => RequestsOf(i) # {}
      /\ \A r \in RequestsOf(i) :
           /\ requests[r].status = queue[i].status
           /\ requests[r].status_event =
                IF queue[i].isParallel THEN "undefined_parallel" ELSE None
           /\ requests[r].status_event \notin
                {"pass", "fail", "pass_parallel", "fail_parallel"}

\* updateRunStatus("skipped", true) has sent its request.
C18_Witness ==
  \E r \in DOMAIN requests :
    /\ requests[r].op = "status"
    /\ queue[requests[r].task].status = "skipped"
    /\ queue[requests[r].task].isParallel
    /\ requests[r].state # "inflight"

\* C12: the future of createRun resolves with the run id when the run was
\* resumed or created, and with no run id when the creation failed.
C12_CreateRunResolvesWithRunId ==
  /\ created.path = "resume" =>
       created.future = "resolved" /\ created.value = runId /\ runId # None
  /\ (created.path = "create" /\ queue[created.link].st = "settled") =>
       /\ queue[created.link].res = "resolved"
       /\ queue[created.link].val =
            IF FailedRequest(created.link) THEN None ELSE NewRunId

\* C14: a createRun call that finds the reporting URL invalid adds no queue
\* entry, issues no request, leaves the run id, the run URL, the published
\* run id and the queue as they were, and returns no result.
C14_InvalidUrlAborts ==
  [][(created.path = None /\ created'.path # None /\ ~created'.urlValid) =>
       /\ queue' = queue
       /\ requests' = requests
       /\ runId' = runId /\ runUrl' = runUrl /\ envRunId' = envRunId
       /\ created'.future = "undefined"
       /\ created'.link = 0]_vars

\* createRun has found the URL invalid on a client that already has calls
\* queued.
C14_Witness ==
  /\ created.path = "invalid" /\ ~created.urlValid
  /\ created.future = "undefined"
  /\ Len(queue) > 0

\* C15: the future of an addTestRun or updateRunStatus call is resolved
\* only when the call's own operation has run to completion and every
\* operation enqueued before it has completed.
C15_ResolvesAfterOwnAndEarlier ==
  \A i \in DOMAIN queue :
    (queue[i].kind \in {"add", "status"} /\ queue[i].res = "resolved") =>
      /\ queue[i].executed
      /\ \A r \in RequestsOf(i) : requests[r].state # "inflight"
      /\ \A j \in 1..(i-1) : queue[j].st = "settled"

\* C20: when an upload of an addTestRun call is rejected, no test result is
\* sent for that test, the call's future resolves, and the operation
\* enqueued next still runs.
C20_RejectedUploadSkipsResult ==
  \A i \in DOMAIN queue :
    (queue[i].kind = "add"
       /\ \E f \in DOMAIN queue[i].uploads : queue[i].uploads[f].st = "rejected") =>
      /\ RequestsOf(i) = {}
      /\ queue[i].st = "settled" => queue[i].res = "resolved"
      /\ (i + 1 \in DOMAIN queue /\ queue[i+1].st = "settled") => queue[i+1].executed

\* After a rejected upload the call has resolved and the operation behind it
\* has sent its request.
C20_Witness ==
  \E i \in DOMAIN queue :
    /\ queue[i].kind = "add"
    /\ \E f \in DOMAIN queue[i].uploads : queue[i].uploads[f].st = "rejected"
    /\ queue[i].res = "resolved"
    /\ i + 1 \in DOMAIN queue
    /\ RequestsOf(i+1) # {}

\* C17: every enqueued task eventually starts, runs its operation and
\* settles, and the future returned to the caller eventually resolves.
C17_EveryTaskRunsToCompletion ==
  \A i \in 1..(MaxCalls + 1) :
    [](i \in DOMAIN queue =>
         <>(/\ i \in DOMAIN queue
            /\ queue[i].st = "settled"
            /\ queue[i].executed
            /\ queue[i].kind # "resume" => queue[i].res = "resolved"))

\* A run id published by a successful create request of this process.
Published == envRunId \in {NewRunId, PeerRunId}

\* C19: once a create request has succeeded and published its run id, a
\* createRun call of either client (that finds the URL valid) takes the
\* resume path: it enqueues an update against the published id, and the
\* request that link issues is that update, not a create.
C19_PublishedRunIsResumed ==
  [][/\ (Published /\ created.path = None /\ created'.path \notin {None, "invalid"}) =>
          /\ created'.path = "resume"
          /\ created'.value = envRunId
          /\ queue' = Append(queue, queue'[Len(queue')])
          /\ queue'[Len(queue')].kind = "resume"
          /\ queue'[Len(queue')].target = envRunId
     /\ (Published /\ peer.st = "new" /\ peer'.path \notin {None, "invalid"}) =>
          /\ peer'.path = "resume"
          /\ peer'.target = envRunId
     /\ (Len(requests') > Len(requests)
           /\ queue[requests'[Len(requests')].task].kind = "resume") =>
          /\ requests'[Len(requests')].op = "update"
          /\ requests'[Len(requests')].runId = queue[requests'[Len(requests')].task].target
     /\ (peer.path = "resume" /\ peer.st = "pending" /\ peer'.st = "inflight") =>
          peer'.op = "update"]_vars

\* The second client has sent an update against the run the first client
\* created.
C19_Witness ==
  /\ created.path = "create"
  /\ peer.path = "resume"
  /\ peer.target = NewRunId
  /\ peer.op = "update"

ActualLine(line) == "<red>- " \o line \o "</red>"
ExpectedLine(line) == "<green>+ " \o line \o "</green>"
Legend == "<green>+ expected</green> <red>- actual</red>"
OneLineDiff(t) ==
  /\ t.kind = "add" /\ t.error.present
  /\ Len(t.error.actual) = 1 /\ Truthy(t.error.actual)
  /\ Len(t.error.expected) = 1 /\ Truthy(t.error.expected)

====
